---------------------------- MODULE Spec2Model ----------------------------
(***************************************************************************)
(* A model of the ToDoAgent core: the set-backed TodoStorage               *)
(* (backend/todo_storage.py), the create_task_tool, get_all_tasks_tool and *)
(* update_task_tool wrappers (domain/tools.py), the ChatHistoryManager     *)
(* (domain/chat_history.py), ToDoAgent.process_message / run               *)
(* (domain/agent.py) and the /chat handler (api/v1/chat_router.py).        *)
(*                                                                         *)
(* Task names are sequences of characters, so that str.lower() is a real   *)
(* character-wise conversion and not the identity.                         *)
(***************************************************************************)
EXTENDS Naturals, Sequences, FiniteSets, TLC

VARIABLES
    tasks,          \* TodoStorage.tasks : set[str]
    last,           \* the last TodoStorage call: its arguments, result and pre-state,
                    \* and the reply of the tool that made it, if it returned
    tool,           \* per request: position inside create_task_tool
    conversations,  \* ChatHistoryManager._conversations : key -> list of messages
    nextId,         \* stands for uuid.uuid4(): a fresh identifier per message
    pm,             \* per call: position inside ToDoAgent.process_message, its
                    \* locals, and the ids add_message gave its two messages
    chat,           \* per call: position inside the /chat handler and its response
    hlast,          \* the last direct ChatHistoryManager call: its arguments, its
                    \* result and the conversations before it
    held,           \* the list object a caller of the manager was last handed
    added,          \* per key: the (content, role) pairs add_message was called
                    \* with since the key was last deleted or cleared
    order,          \* the stored task names in the order they were added
    co,             \* per request: the statement its TodoStorage call is at
    seen,           \* what the last get_task, get_all_tasks or task_exists call
                    \* read, and the mutations in progress when it read
    clock,          \* what datetime.utcnow() returned last
    stamps          \* per key: created_at, updated_at and the messages' timestamps

vars == <<tasks, last, tool, conversations, nextId, pm, chat, hlast, held, added,
          order, co, seen, clock, stamps>>

storeVars == <<tasks, last, tool>>
agentVars == <<conversations, nextId, pm>>
chatVars == <<chat>>
histVars == <<hlast, held, added>>
listVars == <<order>>
concVars == <<co, seen>>
clockVars == <<clock, stamps>>

\* What the actions of the store, the tool and process_message leave alone
\* besides storeVars and agentVars.
outerVars == <<chatVars, histVars, listVars, concVars, clockVars>>

-----------------------------------------------------------------------------
(* Bounds *)

\* Number of requests whose create_task_tool calls may overlap.
NumReq == 2

Reqs == 1..NumReq

\* Number of direct add_message calls made in one run.
MaxAdds == 3

\* The latest time the clock shows.
MaxClock == 3

\* Number of process_message calls made in one run; they may all overlap.
MaxCalls == 2

Calls == 1..MaxCalls

\* Number of earlier, completed process_message calls the default
\* conversation may start with.
PastTurns == 5

\* Task names submitted by callers: "", "a", "A", "b", "Ab".
Names == { <<>>, <<"a">>, <<"A">>, <<"b">>, <<"A", "b">> }

-----------------------------------------------------------------------------
(* Python values *)

\* Optional[str]: None, or a string (which may be the empty string).
None == <<>>

Some(s) == <<s>>

\* Python truthiness of an Optional[str]: None and "" are both falsy.
Truthy(v) == v # None /\ v[1] # <<>>

NoError == [kind |-> "none", msg |-> <<>>]

\* ValueError(f"Task '{name}' already exists")
AlreadyExists(name) ==
    [kind |-> "ValueError", msg |-> <<"Task '", name, "' already exists">>]

\* str.lower() on one character.
LowerChar(c) ==
    CASE c = "A" -> "a"
      [] c = "B" -> "b"
      [] OTHER -> c

\* str.lower()
lower(s) == [i \in 1..Len(s) |-> LowerChar(s[i])]

-----------------------------------------------------------------------------
(* TodoStorage *)

\* {task.lower() for task in self.tasks}
LowerSet(ts) == { lower(t) : t \in ts }

\* A duplicate check that compares the names as written.
create_collides_exact(ts, task_name) == task_name \in ts

\* create_task's duplicate check.
create_collides(ts, task_name) == lower(task_name) \in LowerSet(ts)

\* A create that stores the lower-cased name.
create_task_result_lowered(ts, task_name) ==
    IF create_collides(ts, task_name)
    THEN [tasks |-> ts, ret |-> None, err |-> AlreadyExists(task_name)]
    ELSE [tasks |-> ts \cup {lower(task_name)}, ret |-> Some(task_name), err |-> NoError]

\* A create whose error message carries the stored name.
create_task_result_stored_msg(ts, task_name) ==
    IF create_collides(ts, task_name)
    THEN [tasks |-> ts, ret |-> None,
          err |-> AlreadyExists(CHOOSE t \in ts : lower(t) = lower(task_name))]
    ELSE [tasks |-> ts \cup {task_name}, ret |-> Some(task_name), err |-> NoError]

\* create_task: the store afterwards, the value returned and the error raised.
create_task_result(ts, task_name) ==
    IF create_collides(ts, task_name)
    THEN [tasks |-> ts, ret |-> None, err |-> AlreadyExists(task_name)]
    ELSE [tasks |-> ts \cup {task_name}, ret |-> Some(task_name), err |-> NoError]

\* A lookup that compares the names as written.
matches_exact(ts, task_name) == { t \in ts : t = task_name }

\* The stored names a case-insensitive scan for task_name can stop at.  The
\* iteration order of a set is unspecified, so the scan may stop at any of them.
matches(ts, task_name) == { t \in ts : lower(t) = lower(task_name) }

\* get_task: the values the scan can return.
get_task_results(ts, task_name) ==
    IF matches(ts, task_name) = {}
    THEN {None}
    ELSE { Some(t) : t \in matches(ts, task_name) }

\* task_exists
task_exists_result(ts, task_name) == lower(task_name) \in LowerSet(ts)

\* update_task's first loop: the values actual_old_name can end with.
find_old(ts, old_name) ==
    IF matches(ts, old_name) = {}
    THEN {None}
    ELSE { Some(t) : t \in matches(ts, old_name) }

\* update_task's duplicate check, which leaves out the matched entry.
update_collides(ts, actual, new_name) ==
    lower(new_name) \in LowerSet({ t \in ts : t # actual })

\* A rename that adds the new name and keeps the old one.
update_task_result_keep_old(ts, actual_old_name, new_name) ==
    IF ~Truthy(actual_old_name)
    THEN [tasks |-> ts, ret |-> None, err |-> NoError]
    ELSE IF update_collides(ts, actual_old_name[1], new_name)
    THEN [tasks |-> ts, ret |-> None, err |-> AlreadyExists(new_name)]
    ELSE [tasks |-> ts \cup {new_name}, ret |-> Some(new_name), err |-> NoError]

\* update_task after its first loop has set actual_old_name.
update_task_result(ts, actual_old_name, new_name) ==
    IF ~Truthy(actual_old_name)
    THEN [tasks |-> ts, ret |-> None, err |-> NoError]
    ELSE IF update_collides(ts, actual_old_name[1], new_name)
    THEN [tasks |-> ts, ret |-> None, err |-> AlreadyExists(new_name)]
    ELSE [tasks |-> (ts \ {actual_old_name[1]}) \cup {new_name},
          ret |-> Some(new_name), err |-> NoError]

\* A delete that removes only a name written exactly as asked.
delete_task_results_exact(ts, task_name) ==
    IF matches_exact(ts, task_name) = {}
    THEN { [tasks |-> ts, ret |-> FALSE] }
    ELSE { [tasks |-> ts \ {t}, ret |-> TRUE] : t \in matches_exact(ts, task_name) }

\* delete_task: the scan removes the first match it meets.
delete_task_results(ts, task_name) ==
    IF matches(ts, task_name) = {}
    THEN { [tasks |-> ts, ret |-> FALSE] }
    ELSE { [tasks |-> ts \ {t}, ret |-> TRUE] : t \in matches(ts, task_name) }

NoReply == <<>>

Call(op, a, b, ret, err, reply) ==
    [op |-> op, a |-> a, b |-> b, ret |-> ret, err |-> err, pre |-> tasks,
     reply |-> reply]

create_task(task_name) ==
    LET res == create_task_result(tasks, task_name) IN
    /\ tasks' = res.tasks
    /\ last' = Call("create_task", task_name, <<>>, res.ret, res.err, NoReply)
    /\ UNCHANGED <<tool, agentVars>>

get_task(task_name) ==
    \E v \in get_task_results(tasks, task_name) :
        /\ last' = Call("get_task", task_name, <<>>, v, NoError, NoReply)
        /\ UNCHANGED <<tasks, tool, agentVars>>

task_exists(task_name) ==
    /\ last' = Call("task_exists", task_name, <<>>,
                    task_exists_result(tasks, task_name), NoError, NoReply)
    /\ UNCHANGED <<tasks, tool, agentVars>>

update_task(old_name, new_name) ==
    \E actual \in find_old(tasks, old_name) :
        LET res == update_task_result(tasks, actual, new_name) IN
        /\ tasks' = res.tasks
        /\ last' = Call("update_task", old_name, new_name, res.ret, res.err, NoReply)
        /\ UNCHANGED <<tool, agentVars>>

delete_task(task_name) ==
    \E res \in delete_task_results(tasks, task_name) :
        /\ tasks' = res.tasks
        /\ last' = Call("delete_task", task_name, <<>>, res.ret, NoError, NoReply)
        /\ UNCHANGED <<tool, agentVars>>

\* The lists over all of ts, each name once: what list(a set) can be.
Orderings(ts) ==
    { p \in [1..Cardinality(ts) -> ts] : { p[i] : i \in 1..Cardinality(ts) } = ts }

\* A get_all_tasks that lists the names in lower case.
get_all_tasks_results_lowered(ts) ==
    { [i \in 1..Cardinality(ts) |-> lower(p[i])] : p \in Orderings(ts) }

\* get_all_tasks: list(self.tasks), in the iteration order of the set.
get_all_tasks_results(ts) == Orderings(ts)

RECURSIVE join(_)
\* ', '.join(names)
join(names) ==
    IF Len(names) = 0 THEN <<>>
    ELSE IF Len(names) = 1 THEN <<names[1]>>
    ELSE <<names[1], ", ">> \o join(Tail(names))

get_all_tasks ==
    \E all \in get_all_tasks_results(tasks) :
        /\ last' = Call("get_all_tasks", <<>>, <<>>, all, NoError, NoReply)
        /\ UNCHANGED <<tasks, tool, agentVars>>

\* get_all_tasks_tool: "No tasks found", or "Tasks: " and the joined names.
get_all_tasks_tool ==
    \E all \in get_all_tasks_results(tasks) :
        /\ last' = Call("get_all_tasks_tool", <<>>, <<>>, all, NoError,
                        IF Len(all) = 0 THEN <<"No tasks found">>
                        ELSE <<"Tasks: ">> \o join(all))
        /\ UNCHANGED <<tasks, tool, agentVars>>

\* update_task_tool: one update_task call; `if task:` picks the reply, a
\* ValueError is answered with its text.
update_task_tool(old_name, new_name) ==
    \E actual \in find_old(tasks, old_name) :
        LET res == update_task_result(tasks, actual, new_name) IN
        /\ tasks' = res.tasks
        /\ last' = Call("update_task_tool", old_name, new_name, res.ret, res.err,
                        IF res.err # NoError
                        THEN res.err.msg
                        ELSE IF Truthy(res.ret)
                        THEN <<"Task '", old_name, "' updated to '", new_name, "'">>
                        ELSE <<"Task '", old_name, "' not found">>)
        /\ UNCHANGED <<tool, agentVars>>

\* The names in the order they were added, after the call that led from
\* the stored set pre to the stored set post: create_task adds its name,
\* update_task removes the old name and then adds the new one, delete_task
\* removes a name.
Track(ord, pre, post, call) ==
    LET Stays(x) == x \in post /\ ~(call.op = "update_task" /\ x = call.b) IN
    IF call.op = "create_task" /\ call.err = NoError
    THEN Append(ord, call.a)
    ELSE IF call.op = "update_task" /\ call.err = NoError /\ call.ret # None
    THEN Append(SelectSeq(ord, Stays), call.b)
    ELSE SelectSeq(ord, Stays)

-----------------------------------------------------------------------------
(* TodoStorage statement by statement, for requests served by one event    *)
(* loop: a coroutine runs until it suspends.                               *)

\* The names the overlapping requests use.
ConcNames == { <<"a">>, <<"A">>, <<"b">> }

\* A request outside a TodoStorage call; op is the call it made last.
CoIdle(op) == [pc |-> "idle", op |-> op, a |-> <<>>, b |-> <<>>]

\* A scheduler that may switch to another request after any statement.
suspends_anywhere(pc) == TRUE

\* Whether a request's coroutine can be suspended at pc: the methods of
\* TodoStorage hold no await, so only outside of them.
suspends(pc) == pc = "idle"

\* The event loop may run request r: no other request is in the middle of
\* statements that do not suspend.
may_run(r) == \A q \in Reqs \ {r} : suspends(co[q].pc)

\* The mutations other requests are in the middle of.
in_progress(r) ==
    { [op |-> co[q].op, pc |-> co[q].pc] : q \in { x \in Reqs \ {r} : co[x].pc # "idle" } }

concFrame == <<last, tool, agentVars, chatVars, histVars, listVars, clockVars>>

\* create_task up to its check: raise, or go on to add.
create_task_check(r, task_name) ==
    /\ may_run(r)
    /\ co[r].pc = "idle"
    /\ co' = [co EXCEPT ![r] =
                IF create_collides(tasks, task_name)
                THEN CoIdle("create_task")
                ELSE [pc |-> "add", op |-> "create_task", a |-> task_name, b |-> <<>>]]
    /\ UNCHANGED <<tasks, seen, concFrame>>

\* self.tasks.add(task_name); return
create_task_add(r) ==
    /\ may_run(r)
    /\ co[r].pc = "add" /\ co[r].op = "create_task"
    /\ tasks' = tasks \cup {co[r].a}
    /\ co' = [co EXCEPT ![r] = CoIdle("create_task")]
    /\ UNCHANGED <<seen, concFrame>>

\* update_task up to its two checks: return None, raise, or go on to
\* remove the name it found.
update_task_find(r, old_name, new_name) ==
    /\ may_run(r)
    /\ co[r].pc = "idle"
    /\ \E actual \in find_old(tasks, old_name) :
          co' = [co EXCEPT ![r] =
                   IF ~Truthy(actual) \/ update_collides(tasks, actual[1], new_name)
                   THEN CoIdle("update_task")
                   ELSE [pc |-> "remove", op |-> "update_task",
                         a |-> actual[1], b |-> new_name]]
    /\ UNCHANGED <<tasks, seen, concFrame>>

\* self.tasks.remove(actual_old_name); a name that is gone is a KeyError,
\* which ends the call.
update_task_remove(r) ==
    /\ may_run(r)
    /\ co[r].pc = "remove" /\ co[r].op = "update_task"
    /\ tasks' = tasks \ {co[r].a}
    /\ co' = [co EXCEPT ![r] = IF co[r].a \in tasks
                                THEN [@ EXCEPT !.pc = "add"]
                                ELSE CoIdle("update_task")]
    /\ UNCHANGED <<seen, concFrame>>

\* self.tasks.add(new_name); return new_name
update_task_add(r) ==
    /\ may_run(r)
    /\ co[r].pc = "add" /\ co[r].op = "update_task"
    /\ tasks' = tasks \cup {co[r].b}
    /\ co' = [co EXCEPT ![r] = CoIdle("update_task")]
    /\ UNCHANGED <<seen, concFrame>>

\* delete_task's scan: return False, or go on to remove the name it found.
delete_task_scan(r, task_name) ==
    /\ may_run(r)
    /\ co[r].pc = "idle"
    /\ IF matches(tasks, task_name) = {}
       THEN co' = [co EXCEPT ![r] = CoIdle("delete_task")]
       ELSE \E t \in matches(tasks, task_name) :
               co' = [co EXCEPT ![r] =
                        [pc |-> "remove", op |-> "delete_task", a |-> t, b |-> <<>>]]
    /\ UNCHANGED <<tasks, seen, concFrame>>

\* self.tasks.remove(task); return True
delete_task_remove(r) ==
    /\ may_run(r)
    /\ co[r].pc = "remove" /\ co[r].op = "delete_task"
    /\ tasks' = tasks \ {co[r].a}
    /\ co' = [co EXCEPT ![r] = CoIdle("delete_task")]
    /\ UNCHANGED <<seen, concFrame>>

\* get_task, get_all_tasks or task_exists: one pass over self.tasks.
read_tasks(r, op) ==
    /\ may_run(r)
    /\ co[r].pc = "idle"
    /\ seen' = [by |-> r, op |-> op, tasks |-> tasks, during |-> in_progress(r)]
    /\ co' = [co EXCEPT ![r] = CoIdle(op)]
    /\ UNCHANGED <<tasks, concFrame>>

-----------------------------------------------------------------------------
(* create_task_tool: two awaits, task_exists and then create_task.  Another *)
(* request's storage call may run between them.                             *)

ToolIdle == [pc |-> "idle", arg |-> <<>>]

\* try: if await todo_storage.task_exists(task_name):
\*          return f"Task '{task_name}' already exists"
create_task_tool_check(r, task_name) ==
    LET found == task_exists_result(tasks, task_name) IN
    /\ tool[r].pc = "idle"
    /\ last' = Call("task_exists", task_name, <<>>, found, NoError,
                    IF found THEN <<"Task '", task_name, "' already exists">>
                    ELSE NoReply)
    /\ tool' = [tool EXCEPT ![r] =
                  IF found THEN ToolIdle
                  ELSE [pc |-> "checked", arg |-> task_name]]
    /\ UNCHANGED <<tasks, agentVars>>

\* await todo_storage.create_task(task_name); return f"Task '{task_name}' added"
\* except Exception as e: return f"Error creating task: {str(e)}"
create_task_tool_create(r) ==
    /\ tool[r].pc = "checked"
    /\ LET res == create_task_result(tasks, tool[r].arg) IN
       /\ tasks' = res.tasks
       /\ last' = Call("create_task", tool[r].arg, <<>>, res.ret, res.err,
                       IF res.err = NoError
                       THEN <<"Task '", tool[r].arg, "' added">>
                       ELSE <<"Error creating task: ", res.err.msg>>)
       /\ tool' = [tool EXCEPT ![r] = ToolIdle]
    /\ UNCHANGED agentVars

-----------------------------------------------------------------------------
(* ChatHistoryManager *)

\* The number of stored messages run gives the agent as context.
ContextWindow == 10

\* An add_message that keeps only the newest ContextWindow messages.
add_message_trimmed(convs, conversation_id, content, role, id) ==
    LET old == IF conversation_id \in DOMAIN convs THEN convs[conversation_id] ELSE <<>>
        message == [id |-> id, content |-> content, role |-> role]
        all == Append(old, message)
    IN  [k \in DOMAIN convs \cup {conversation_id} |->
            IF k = conversation_id
            THEN IF Len(all) > ContextWindow
                 THEN SubSeq(all, Len(all) - ContextWindow + 1, Len(all))
                 ELSE all
            ELSE convs[k]]

\* An add_message that puts the new message in front of the stored ones.
add_message_in_front(convs, conversation_id, content, role, id) ==
    LET old == IF conversation_id \in DOMAIN convs THEN convs[conversation_id] ELSE <<>>
        message == [id |-> id, content |-> content, role |-> role]
    IN  [k \in DOMAIN convs \cup {conversation_id} |->
            IF k = conversation_id THEN <<message>> \o old ELSE convs[k]]

\* if conversation_id not in self._conversations: create it;
\* conversation.messages.append(ChatMessage(id, content, role))
add_message(convs, conversation_id, content, role, id) ==
    LET old == IF conversation_id \in DOMAIN convs THEN convs[conversation_id] ELSE <<>>
        message == [id |-> id, content |-> content, role |-> role]
    IN  [k \in DOMAIN convs \cup {conversation_id} |->
            IF k = conversation_id THEN Append(old, message) ELSE convs[k]]

\* conversation.messages if conversation else []
get_conversation_messages(convs, conversation_id) ==
    IF conversation_id \in DOMAIN convs THEN convs[conversation_id] ELSE <<>>

-----------------------------------------------------------------------------
(* ToDoAgent *)

\* conversation_id or 'default', for an Optional[str] argument
OrDefault(conversation_id) ==
    IF conversation_id = None \/ conversation_id[1] = ""
    THEN "default"
    ELSE conversation_id[1]

\* A run that passes the whole stored history on.
recent_history_all(history_messages) == history_messages

\* history_messages[-10:] if len(history_messages) > 10 else history_messages
recent_history(history_messages) ==
    IF Len(history_messages) > ContextWindow
    THEN SubSeq(history_messages, Len(history_messages) - ContextWindow + 1,
                Len(history_messages))
    ELSE history_messages

\* HumanMessage(content=...)
HumanMessage(content) == [type |-> "human", content |-> content]

\* AIMessage(content=...)
AIMessage(content) == [type |-> "ai", content |-> content]

\* run's loop over recent_history: user -> HumanMessage, assistant ->
\* AIMessage, any other role is skipped.
RECURSIVE to_messages(_)
to_messages(recent) ==
    IF recent = <<>> THEN <<>>
    ELSE LET msg == Head(recent) IN
         (IF msg.role = "user" THEN <<HumanMessage(msg.content)>>
          ELSE IF msg.role = "assistant" THEN <<AIMessage(msg.content)>>
          ELSE <<>>)
         \o to_messages(Tail(recent))

\* run, up to the call of self.agent.ainvoke: the message list it passes.
run_messages(convs, message, conversation_id) ==
    to_messages(recent_history(get_conversation_messages(convs, conversation_id)))
        \o <<HumanMessage(message)>>

\* What self.agent.ainvoke can return: None, a dict without "messages", a
\* dict whose "messages" is empty, one whose last message has no content
\* attribute, and one whose last message carries a reply.
NoResult == [isNone |-> TRUE, hasMessages |-> FALSE, messages |-> <<>>]

DictResult(hasKey, messages) ==
    [isNone |-> FALSE, hasMessages |-> hasKey, messages |-> messages]

Replies == {"r1", ""}

AgentResults ==
    {NoResult, DictResult(FALSE, <<>>), DictResult(TRUE, <<>>),
     DictResult(TRUE, <<[hasContent |-> FALSE, content |-> ""]>>)}
    \cup { DictResult(TRUE, <<[hasContent |-> TRUE, content |-> "m1"],
                              [hasContent |-> TRUE, content |-> r]>>) : r \in Replies }

\* Python truthiness of run's result: None and the empty dict are falsy.  A
\* dict without the "messages" key stands for both {} and {"other": ...}.
\* if result and "messages" in result: ... if messages and hasattr(messages[-1], 'content')
has_reply(result) ==
    /\ ~result.isNone
    /\ result.hasMessages
    /\ result.messages # <<>>
    /\ result.messages[Len(result.messages)].hasContent

\* A process_message that returns the reply without saving it.
handle_result_unsaved(convs, conversation_id, result, id) ==
    IF has_reply(result)
    THEN [conversations |-> convs,
          ret |-> result.messages[Len(result.messages)].content, aid |-> 0]
    ELSE [conversations |-> convs, ret |-> "No response generated", aid |-> 0]

\* A process_message that answers a result without a reply with the empty
\* string.
handle_result_empty_text(convs, conversation_id, result, id) ==
    IF has_reply(result)
    THEN LET response_content == result.messages[Len(result.messages)].content IN
         [conversations |-> add_message(convs, conversation_id, response_content,
                                        "assistant", id),
          ret |-> response_content, aid |-> id]
    ELSE [conversations |-> convs, ret |-> "", aid |-> 0]

\* process_message after run has returned: the reply is saved and returned,
\* or "No response generated" is returned.
handle_result(convs, conversation_id, result, id) ==
    IF has_reply(result)
    THEN LET response_content == result.messages[Len(result.messages)].content IN
         [conversations |-> add_message(convs, conversation_id, response_content,
                                        "assistant", id),
          ret |-> response_content, aid |-> id]
    ELSE [conversations |-> convs, ret |-> "No response generated", aid |-> 0]

\* f"Error processing request: {str(e)}"
ErrorMessage(e) == "Error processing request: " \o e

Errors == {"boom"}

\* arg is the conversation_id argument as the caller gave it; runCalls and
\* runArgs are the number of calls of self.run and the arguments of the last.
PmIdle ==
    [pc |-> "idle", arg |-> None, cid |-> "", message |-> "", context |-> <<>>,
     runCalls |-> 0, runArgs |-> <<>>,
     result |-> NoResult, raised |-> "", ret |-> "", uid |-> 0, aid |-> 0]

Msgs == {"m1", "m2"}

CidArgs == {None, Some(""), Some("c1")}

\* process_message until run awaits the agent: the user message is saved,
\* run builds the message list and invokes the agent with it.  Calls are
\* numbered in the order they start.
process_message_start(c, message, conversation_arg) ==
    LET conversation_id == OrDefault(conversation_arg)
        saved == add_message(conversations, conversation_id, message, "user", nextId)
    IN  /\ pm[c].pc = "idle"
        /\ IF c = 1 THEN TRUE ELSE pm[c - 1].pc # "idle"
        /\ conversations' = saved
        /\ nextId' = nextId + 1
        /\ pm' = [pm EXCEPT ![c] =
                    [PmIdle EXCEPT !.pc = "invoked", !.arg = conversation_arg,
                                   !.cid = conversation_id,
                                   !.message = message,
                                   !.runCalls = 1,
                                   !.runArgs = <<message, conversation_id>>,
                                   !.context = run_messages(saved, message, conversation_id),
                                   !.uid = nextId]]
        /\ UNCHANGED storeVars

\* A process_message that returns only after the calls started before it.
process_message_return_in_turn(c, result) ==
    LET res == handle_result(conversations, pm[c].cid, result, nextId) IN
    /\ pm[c].pc = "invoked"
    /\ IF c = 1 THEN TRUE ELSE pm[c - 1].pc = "done"
    /\ conversations' = res.conversations
    /\ nextId' = IF res.aid = 0 THEN nextId ELSE nextId + 1
    /\ pm' = [pm EXCEPT ![c].pc = "done", ![c].result = result,
                        ![c].ret = res.ret, ![c].aid = res.aid]
    /\ UNCHANGED storeVars

\* self.agent.ainvoke returns; run returns the result; process_message
\* extracts the reply.
process_message_return(c, result) ==
    LET res == handle_result(conversations, pm[c].cid, result, nextId) IN
    /\ pm[c].pc = "invoked"
    /\ conversations' = res.conversations
    /\ nextId' = IF res.aid = 0 THEN nextId ELSE nextId + 1
    /\ pm' = [pm EXCEPT ![c].pc = "done", ![c].result = result,
                        ![c].ret = res.ret, ![c].aid = res.aid]
    /\ UNCHANGED storeVars

\* A process_message that returns the error text without saving it.
process_message_raise_unsaved(c, e) ==
    /\ pm[c].pc = "invoked"
    /\ pm' = [pm EXCEPT ![c].pc = "done", ![c].raised = e,
                        ![c].ret = ErrorMessage(e)]
    /\ UNCHANGED <<conversations, nextId, storeVars>>

\* self.agent.ainvoke raises; run logs and re-raises; process_message saves
\* and returns the error text.
process_message_raise(c, e) ==
    /\ pm[c].pc = "invoked"
    /\ conversations' = add_message(conversations, pm[c].cid, ErrorMessage(e),
                                    "assistant", nextId)
    /\ nextId' = nextId + 1
    /\ pm' = [pm EXCEPT ![c].pc = "done", ![c].raised = e,
                        ![c].ret = ErrorMessage(e), ![c].aid = nextId]
    /\ UNCHANGED storeVars

-----------------------------------------------------------------------------
(* Direct calls of the ChatHistoryManager *)

Keys == {"c1", "c2"}
Contents == {"m1", "m2"}
Roles == {"user", "assistant"}

\* self._conversations.get(conversation_id): the conversation object, whose
\* messages are the stored list itself, or None.
get_conversation(convs, conversation_id) ==
    IF conversation_id \in DOMAIN convs
    THEN Some([conversation_id |-> conversation_id,
               messages |-> convs[conversation_id]])
    ELSE None

\* list(self._conversations.values()); the order of the list is left out.
get_all_conversations(convs) ==
    { [conversation_id |-> k, messages |-> convs[k]] : k \in DOMAIN convs }

\* conversation_id in self._conversations
conversation_exists(convs, conversation_id) == conversation_id \in DOMAIN convs

\* A delete_conversation that reports the deletion and keeps the conversation.
delete_conversation_kept(convs, conversation_id) ==
    [conversations |-> convs, ret |-> conversation_id \in DOMAIN convs]

\* A delete_conversation that drops every stored conversation.
delete_conversation_all(convs, conversation_id) ==
    [conversations |-> << >>, ret |-> conversation_id \in DOMAIN convs]

\* del self._conversations[conversation_id] if it is there; True iff it was.
delete_conversation(convs, conversation_id) ==
    IF conversation_id \in DOMAIN convs
    THEN [conversations |-> [k \in DOMAIN convs \ {conversation_id} |-> convs[k]],
          ret |-> TRUE]
    ELSE [conversations |-> convs, ret |-> FALSE]

\* A clear_all_conversations that counts after clearing.
clear_all_conversations_counted_late(convs) ==
    [conversations |-> << >>, ret |-> 0]

\* count = len(self._conversations); self._conversations.clear()
clear_all_conversations(convs) ==
    [conversations |-> << >>, ret |-> Cardinality(DOMAIN convs)]

HCall(op, key, content, role, ret) ==
    [op |-> op, key |-> key, content |-> content, role |-> role, ret |-> ret,
     pre |-> conversations]

\* A caller holds no list, the messages list of the conversation stored
\* under key ("live"), or a list no stored conversation has ("own": a fresh
\* [] or the list of a conversation since deleted).  was is the list as it
\* was when handed out, cur the contents of an "own" list.
NoHeld == [ref |-> "none", key |-> "", was |-> <<>>, cur |-> <<>>]

\* The contents of the held list object now.
HeldList ==
    IF held.ref = "live" THEN conversations[held.key] ELSE held.cur

\* The held list after the manager dropped the conversations in gone.
Detached(gone) ==
    IF held.ref = "live" /\ held.key \in gone
    THEN [held EXCEPT !.ref = "own", !.cur = conversations[held.key]]
    ELSE held

\* "added" after one more add_message.
Logged(conversation_id, content, role) ==
    [k \in DOMAIN added \cup {conversation_id} |->
        IF k = conversation_id
        THEN Append(IF k \in DOMAIN added THEN added[k] ELSE <<>>,
                    [content |-> content, role |-> role])
        ELSE added[k]]

histFrame == <<storeVars, pm, chatVars, listVars, concVars>>

do_add_message(conversation_id, content, role) ==
    /\ nextId <= MaxAdds
    /\ conversations' = add_message(conversations, conversation_id, content, role, nextId)
    /\ nextId' = nextId + 1
    /\ hlast' = HCall("add_message", conversation_id, content, role, nextId)
    /\ added' = Logged(conversation_id, content, role)
    /\ UNCHANGED <<held, histFrame>>

do_get_conversation(conversation_id) ==
    LET conversation == get_conversation(conversations, conversation_id) IN
    /\ hlast' = HCall("get_conversation", conversation_id, "", "", conversation)
    /\ held' = IF conversation = None
               THEN NoHeld
               ELSE [ref |-> "live", key |-> conversation_id,
                     was |-> conversation[1].messages, cur |-> <<>>]
    /\ UNCHANGED <<conversations, nextId, added, histFrame>>

do_get_all_conversations ==
    /\ hlast' = HCall("get_all_conversations", "", "", "",
                      get_all_conversations(conversations))
    /\ UNCHANGED <<conversations, nextId, held, added, histFrame>>

do_delete_conversation(conversation_id) ==
    LET res == delete_conversation(conversations, conversation_id) IN
    /\ conversations' = res.conversations
    /\ hlast' = HCall("delete_conversation", conversation_id, "", "", res.ret)
    /\ held' = Detached(DOMAIN conversations \ DOMAIN res.conversations)
    /\ added' = [k \in DOMAIN added \ {conversation_id} |-> added[k]]
    /\ UNCHANGED <<nextId, histFrame>>

do_clear_all_conversations ==
    LET res == clear_all_conversations(conversations) IN
    /\ conversations' = res.conversations
    /\ hlast' = HCall("clear_all_conversations", "", "", "", res.ret)
    /\ held' = Detached(DOMAIN conversations \ DOMAIN res.conversations)
    /\ added' = << >>
    /\ UNCHANGED <<nextId, histFrame>>

do_get_conversation_messages(conversation_id) ==
    /\ hlast' = HCall("get_conversation_messages", conversation_id, "", "",
                      get_conversation_messages(conversations, conversation_id))
    /\ held' = IF conversation_id \in DOMAIN conversations
               THEN [ref |-> "live", key |-> conversation_id,
                     was |-> conversations[conversation_id], cur |-> <<>>]
               ELSE [ref |-> "own", key |-> conversation_id,
                     was |-> <<>>, cur |-> <<>>]
    /\ UNCHANGED <<conversations, nextId, added, histFrame>>

do_conversation_exists(conversation_id) ==
    /\ hlast' = HCall("conversation_exists", conversation_id, "", "",
                      conversation_exists(conversations, conversation_id))
    /\ UNCHANGED <<conversations, nextId, held, added, histFrame>>

\* The caller empties the list it holds (list.clear()).
caller_clears ==
    /\ held.ref # "none"
    /\ conversations' = IF held.ref = "live"
                        THEN [conversations EXCEPT ![held.key] = <<>>]
                        ELSE conversations
    /\ held' = [held EXCEPT !.was = <<>>, !.cur = <<>>]
    /\ hlast' = HCall("caller_clears", held.key, "", "", 0)
    /\ UNCHANGED <<nextId, added, histFrame>>

-----------------------------------------------------------------------------
(* The /chat handler (api/v1/chat_router.py) *)

ChatIdle ==
    [pc |-> "idle", response |-> "", conversation_id |-> "",
     success |-> FALSE, error |-> None]

\* str(uuid.uuid4()): an identifier no other request has.
uuid4(c) == "uuid-" \o ToString(c)

\* request.conversation_id or str(uuid.uuid4())
OrUuid(request_conversation_id, c) ==
    IF request_conversation_id = None \/ request_conversation_id[1] = ""
    THEN uuid4(c)
    ELSE request_conversation_id[1]

\* What `await agent.process_message(...)` gives the handler: a value, or an
\* exception that escaped it.
Value(v) == [raised |-> FALSE, value |-> v, e |-> ""]
Raised(e) == [raised |-> TRUE, value |-> "", e |-> e]

Apology == "I'm sorry, I encountered an error processing your request. Please try again."

\* The ChatResponse of the handler: the try body's, or the except branch's.
ChatResponse(conversation_id, outcome) ==
    IF outcome.raised
    THEN [pc |-> "responded", response |-> Apology,
          conversation_id |-> conversation_id, success |-> FALSE,
          error |-> Some(outcome.e)]
    ELSE [pc |-> "responded", response |-> outcome.value,
          conversation_id |-> conversation_id, success |-> TRUE,
          error |-> None]

\* POST /chat until process_message awaits the agent.
chat_request(c, message, request_conversation_id) ==
    LET conversation_id == OrUuid(request_conversation_id, c) IN
    /\ chat[c].pc = "idle"
    /\ process_message_start(c, message, Some(conversation_id))
    /\ chat' = [chat EXCEPT ![c] = [ChatIdle EXCEPT !.pc = "awaiting",
                                       !.conversation_id = conversation_id]]

\* The agent returns: process_message returns and the handler responds.
chat_agent_returns(c, result) ==
    /\ chat[c].pc = "awaiting"
    /\ process_message_return(c, result)
    /\ chat' = [chat EXCEPT ![c] = ChatResponse(@.conversation_id, Value(pm'[c].ret))]

\* The agent raises: process_message catches the exception and returns, and
\* the handler responds.
chat_agent_raises(c, e) ==
    /\ chat[c].pc = "awaiting"
    /\ process_message_raise(c, e)
    /\ chat' = [chat EXCEPT ![c] = ChatResponse(@.conversation_id, Value(pm'[c].ret))]

-----------------------------------------------------------------------------
(* Specification of the store *)

InitStore ==
    /\ tasks = {}
    /\ last = [op |-> "none", a |-> <<>>, b |-> <<>>, ret |-> None,
               err |-> NoError, pre |-> {}, reply |-> NoReply]
    /\ tool = [r \in Reqs |-> ToolIdle]

\* The default conversation after n process_message calls that ran one
\* after the other, each answered with a reply.
PastHistory(n) ==
    [i \in 1..(2 * n) |->
        IF i % 2 = 1
        THEN [id |-> i, content |-> IF i % 4 = 1 THEN "m1" ELSE "m2", role |-> "user"]
        ELSE [id |-> i, content |-> "r1", role |-> "assistant"]]

InitAgent ==
    /\ conversations = << >>
    /\ nextId = 1
    /\ pm = [c \in Calls |-> PmIdle]

\* The agent after 0..PastTurns earlier calls on the default conversation.
InitAgentWarm ==
    \E n \in 0..PastTurns :
        /\ conversations = IF n = 0 THEN << >> ELSE [k \in {"default"} |-> PastHistory(n)]
        /\ nextId = 2 * n + 1
        /\ pm = [c \in Calls |-> PmIdle]

InitChat ==
    chat = [c \in Calls |-> ChatIdle]

InitHist ==
    /\ hlast = [op |-> "none", key |-> "", content |-> "", role |-> "", ret |-> 0,
                pre |-> << >>]
    /\ held = NoHeld
    /\ added = << >>

InitList ==
    order = <<>>

InitConc ==
    /\ co = [r \in Reqs |-> CoIdle("none")]
    /\ seen = [by |-> 0, op |-> "none", tasks |-> {}, during |-> {}]

InitClock ==
    /\ clock = 0
    /\ stamps = << >>

InitOuter == InitChat /\ InitHist /\ InitList /\ InitConc /\ InitClock

Init == InitStore /\ InitAgent /\ InitOuter

NextStore ==
    \/ \E n \in Names : create_task(n) /\ UNCHANGED outerVars
    \/ \E n \in Names : get_task(n) /\ UNCHANGED outerVars
    \/ \E n \in Names : task_exists(n) /\ UNCHANGED outerVars
    \/ \E o \in Names, n \in Names : update_task(o, n) /\ UNCHANGED outerVars
    \/ \E n \in Names : delete_task(n) /\ UNCHANGED outerVars
    \/ \E r \in Reqs, n \in Names : create_task_tool_check(r, n) /\ UNCHANGED outerVars
    \/ \E r \in Reqs : create_task_tool_create(r) /\ UNCHANGED outerVars

SpecStore == Init /\ [][NextStore]_vars

NextAgent ==
    \/ \E c \in Calls, m \in Msgs, k \in CidArgs :
          process_message_start(c, m, k) /\ UNCHANGED outerVars
    \/ \E c \in Calls, result \in AgentResults :
          process_message_return(c, result) /\ UNCHANGED outerVars
    \/ \E c \in Calls, e \in Errors :
          process_message_raise(c, e) /\ UNCHANGED outerVars

InitWarm == InitStore /\ InitAgentWarm /\ InitOuter

SpecAgent == InitWarm /\ [][NextAgent]_vars

\* The agent invocation of call c returns, or raises.
AgentReturns(c) ==
    \E result \in AgentResults : process_message_return(c, result) /\ UNCHANGED outerVars

AgentRaises(c) ==
    \E e \in Errors : process_message_raise(c, e) /\ UNCHANGED outerVars

\* Overlapping process_message calls whose agent invocations all end: the
\* agent eventually returns or raises for every call that invoked it.
SpecAgentLive ==
    /\ Init
    /\ [][NextAgent]_vars
    /\ \A c \in Calls : WF_vars(AgentReturns(c) \/ AgentRaises(c))

\* No other process_message call is suspended in its agent invocation.
no_overlap(c) == \A d \in Calls \ {c} : pm[d].pc # "invoked"

\* process_message calls made one after the other.
NextSeq ==
    \/ \E c \in Calls, m \in Msgs, k \in CidArgs :
          no_overlap(c) /\ process_message_start(c, m, k) /\ UNCHANGED outerVars
    \/ \E c \in Calls, result \in AgentResults :
          process_message_return(c, result) /\ UNCHANGED outerVars
    \/ \E c \in Calls, e \in Errors :
          process_message_raise(c, e) /\ UNCHANGED outerVars

SpecSeq == InitWarm /\ [][NextSeq]_vars

\* Requests to POST /chat; they may all overlap.
NextChat ==
    \/ \E c \in Calls, m \in Msgs, k \in CidArgs :
          chat_request(c, m, k) /\ UNCHANGED <<histVars, listVars, concVars, clockVars>>
    \/ \E c \in Calls, result \in AgentResults :
          chat_agent_returns(c, result) /\ UNCHANGED <<histVars, listVars, concVars, clockVars>>
    \/ \E c \in Calls, e \in Errors :
          chat_agent_raises(c, e) /\ UNCHANGED <<histVars, listVars, concVars, clockVars>>

SpecChat == Init /\ [][NextChat]_vars

\* What every step of the task list specification does besides its call.
Tracked ==
    /\ order' = Track(order, tasks, tasks', last')
    /\ UNCHANGED <<chatVars, histVars, concVars, clockVars>>

\* Storage calls one after the other, and listings.
NextList ==
    \/ \E n \in Names : create_task(n) /\ Tracked
    \/ \E o \in Names, n \in Names : update_task(o, n) /\ Tracked
    \/ \E n \in Names : delete_task(n) /\ Tracked
    \/ get_all_tasks /\ Tracked
    \/ get_all_tasks_tool /\ Tracked

SpecList == Init /\ [][NextList]_vars

\* Overlapping requests, each making storage calls statement by statement.
NextConc ==
    \/ \E r \in Reqs, n \in ConcNames : create_task_check(r, n)
    \/ \E r \in Reqs : create_task_add(r)
    \/ \E r \in Reqs, o \in ConcNames, n \in ConcNames : update_task_find(r, o, n)
    \/ \E r \in Reqs : update_task_remove(r)
    \/ \E r \in Reqs : update_task_add(r)
    \/ \E r \in Reqs, n \in ConcNames : delete_task_scan(r, n)
    \/ \E r \in Reqs : delete_task_remove(r)
    \/ \E r \in Reqs, op \in {"get_task", "get_all_tasks", "task_exists"} :
          read_tasks(r, op)

SpecConc == Init /\ [][NextConc]_vars

\* Storage calls one after the other, renames being made through the tool.
NextTool ==
    \/ \E n \in Names : create_task(n) /\ UNCHANGED outerVars
    \/ \E n \in Names : delete_task(n) /\ UNCHANGED outerVars
    \/ \E o \in Names, n \in Names : update_task_tool(o, n) /\ UNCHANGED outerVars

SpecTool == Init /\ [][NextTool]_vars

\* Direct calls of the manager by callers that only read what they get.
NextHistory ==
    \/ \E k \in Keys, content \in Contents, role \in Roles :
          do_add_message(k, content, role) /\ UNCHANGED clockVars
    \/ \E k \in Keys : do_get_conversation(k) /\ UNCHANGED clockVars
    \/ do_get_all_conversations /\ UNCHANGED clockVars
    \/ \E k \in Keys : do_delete_conversation(k) /\ UNCHANGED clockVars
    \/ do_clear_all_conversations /\ UNCHANGED clockVars
    \/ \E k \in Keys : do_get_conversation_messages(k) /\ UNCHANGED clockVars
    \/ \E k \in Keys : do_conversation_exists(k) /\ UNCHANGED clockVars

SpecHistory == Init /\ [][NextHistory]_vars

\* Direct calls of the manager by callers that also write to what they get.
NextAlias ==
    \/ NextHistory
    \/ caller_clears /\ UNCHANGED clockVars

\* add_message with its reads of the clock: the message is stamped first,
\* a new conversation's created_at is read next, updated_at last.  The
\* clock may advance before each read and never goes back.
timed_add_message(conversation_id) ==
    \E t1 \in clock..MaxClock :
      \E t2 \in t1..MaxClock :
        \E t4 \in t2..MaxClock :
          LET new == conversation_id \notin DOMAIN stamps IN
          /\ new \/ t2 = t1
          /\ do_add_message(conversation_id, "m1", "user")
          /\ clock' = t4
          /\ stamps' =
                [k \in DOMAIN stamps \cup {conversation_id} |->
                    IF k # conversation_id THEN stamps[k]
                    ELSE IF new
                    THEN [created_at |-> t2, updated_at |-> t4, timestamps |-> <<t1>>]
                    ELSE [created_at |-> stamps[k].created_at, updated_at |-> t4,
                          timestamps |-> Append(stamps[k].timestamps, t1)]]

timed_delete_conversation(conversation_id) ==
    /\ do_delete_conversation(conversation_id)
    /\ stamps' = [k \in DOMAIN stamps \ {conversation_id} |-> stamps[k]]
    /\ UNCHANGED clock

timed_clear_all_conversations ==
    /\ do_clear_all_conversations
    /\ stamps' = << >>
    /\ UNCHANGED clock

\* Direct calls of the manager under a clock that never goes backwards.
NextClock ==
    \/ \E k \in Keys : timed_add_message(k)
    \/ \E k \in Keys : timed_delete_conversation(k)
    \/ timed_clear_all_conversations

SpecClock == Init /\ [][NextClock]_vars

SpecAlias == Init /\ [][NextAlias]_vars

Next == NextStore \/ NextAgent \/ NextChat \/ NextAlias \/ NextList \/ NextConc
            \/ NextSeq \/ NextTool \/ NextClock

Spec == Init /\ [][Next]_vars

-----------------------------------------------------------------------------
(* Properties of the store *)

\* The stored names that equal q when letter case is ignored.
SameIgnoringCase(ts, q) == { t \in ts : lower(t) = lower(q) }

\* The last call returned normally (no exception left it).
Returned == last.err.kind = "none"

\* C1: after any sequence of create_task, update_task and delete_task calls,
\* failed ones and calls made through create_task_tool by interleaved
\* requests included, no two distinct stored names have the same
\* lower-cased form.
C1_UniqueIgnoringCase ==
    \A s \in tasks, t \in tasks : lower(s) = lower(t) => s = t

\* C1: a create_task issued by create_task_tool lost the race to another
\* request's call and failed, with several names stored.
C1_Witness ==
    /\ Cardinality(tasks) >= 2
    /\ last.op = "create_task"
    /\ last.err.kind = "ValueError"
    /\ last.reply # NoReply

\* C2: create_task(name), when a stored name equals name ignoring case, fails
\* with ValueError "Task '<name>' already exists" carrying the name as
\* submitted, and leaves the stored set as it was.
C2_DuplicateCreateFails ==
    (last.op = "create_task" /\ SameIgnoringCase(last.pre, last.a) # {})
        => /\ last.err.kind = "ValueError"
           /\ last.err.msg = <<"Task '", last.a, "' already exists">>
           /\ tasks = last.pre

\* C2: a create was refused for a name stored in another casing.
C2_Witness ==
    /\ last.op = "create_task"
    /\ last.err.kind = "ValueError"
    /\ last.a \notin last.pre
    /\ last.pre # {}

\* C3: update_task(old, new) returns None exactly when no stored name
\* matches old ignoring case (the empty string included), and then the store
\* is unchanged and nothing is raised.
C3_NotFoundIffAbsent ==
    last.op = "update_task"
        => /\ (Returned /\ last.ret = None) <=> (SameIgnoringCase(last.pre, last.a) = {})
           /\ SameIgnoringCase(last.pre, last.a) = {} => (Returned /\ tasks = last.pre)

\* C4 as claimed: whenever update_task(old, new) returns a name, it is new,
\* the store is the previous set with the single match of old replaced by
\* new, the number of names is unchanged, a lookup of old afterwards is
\* not-found and a lookup of new returns new.
C4_RenameAsClaimed ==
    (last.op = "update_task" /\ Returned /\ last.ret # None)
        => /\ last.ret = Some(last.b)
           /\ \E m \in last.pre :
                 /\ SameIgnoringCase(last.pre, last.a) = {m}
                 /\ tasks = (last.pre \ {m}) \cup {last.b}
           /\ Cardinality(tasks) = Cardinality(last.pre)
           /\ get_task_results(tasks, last.b) = {Some(last.b)}
           /\ get_task_results(tasks, last.a) = {None}

\* C4 amended: as above, except that a lookup of old afterwards is not-found
\* only when new differs from old ignoring case; when they are equal
\* ignoring case the lookup of old returns new.
C4_Rename ==
    (last.op = "update_task" /\ Returned /\ last.ret # None)
        => /\ last.ret = Some(last.b)
           /\ \E m \in last.pre :
                 /\ SameIgnoringCase(last.pre, last.a) = {m}
                 /\ tasks = (last.pre \ {m}) \cup {last.b}
           /\ Cardinality(tasks) = Cardinality(last.pre)
           /\ get_task_results(tasks, last.b) = {Some(last.b)}
           /\ get_task_results(tasks, last.a) =
                 IF lower(last.a) = lower(last.b) THEN {Some(last.b)} ELSE {None}

\* C4: a rename through a differently-cased old name succeeded beside
\* another stored name.
C4_Witness ==
    /\ last.op = "update_task"
    /\ Returned
    /\ last.ret = Some(last.b)
    /\ last.a \notin last.pre
    /\ lower(last.a) # lower(last.b)
    /\ Cardinality(tasks) >= 2

\* C5: update_task(old, new), where old matches a stored entry m and new
\* equals ignoring case a stored name other than m, fails with ValueError
\* "Task '<new>' already exists" and leaves the store unchanged.
C5_RenameCollisionFails ==
    (/\ last.op = "update_task"
     /\ \E m \in SameIgnoringCase(last.pre, last.a) :
           SameIgnoringCase(last.pre \ {m}, last.b) # {})
        => /\ last.err.kind = "ValueError"
           /\ last.err.msg = <<"Task '", last.b, "' already exists">>
           /\ tasks = last.pre

\* C6: in every reachable store state and for every query q, get_task(q)
\* returns the one stored name equal to q ignoring case, in its stored
\* casing, and None if there is none; task_exists(q) is true exactly when
\* get_task(q) is not None; neither raises nor changes the store.
C6_Lookup ==
    /\ \A q \in Names :
          /\ Cardinality(SameIgnoringCase(tasks, q)) <= 1
          /\ get_task_results(tasks, q) =
                IF SameIgnoringCase(tasks, q) = {} THEN {None}
                ELSE { Some(t) : t \in SameIgnoringCase(tasks, q) }
          /\ task_exists_result(tasks, q) <=> (None \notin get_task_results(tasks, q))
    /\ last.op = "get_task"
          => /\ Returned /\ tasks = last.pre
             /\ \/ SameIgnoringCase(last.pre, last.a) = {} /\ last.ret = None
                \/ \E t \in last.pre :
                      SameIgnoringCase(last.pre, last.a) = {t} /\ last.ret = Some(t)
    /\ last.op = "task_exists"
          => /\ Returned /\ tasks = last.pre
             /\ last.ret = (SameIgnoringCase(last.pre, last.a) # {})

\* C6: get_task answered with a stored name whose casing differs from the query.
C6_Witness ==
    /\ last.op = "get_task"
    /\ last.ret # None
    /\ last.ret[1] # last.a
    /\ last.ret[1] \in tasks

\* C7: delete_task(name) returns True exactly when a stored name matches
\* name ignoring case, and then exactly that name is removed and all others
\* remain; otherwise it returns False, raises nothing and leaves the store
\* unchanged; afterwards no stored name matches name.
C7_Delete ==
    last.op = "delete_task"
        => /\ Returned
           /\ last.ret = (SameIgnoringCase(last.pre, last.a) # {})
           /\ \/ SameIgnoringCase(last.pre, last.a) = {} /\ tasks = last.pre
              \/ \E t \in last.pre :
                    SameIgnoringCase(last.pre, last.a) = {t} /\ tasks = last.pre \ {t}
           /\ SameIgnoringCase(tasks, last.a) = {}

\* C7: a delete through a differently-cased name removed one of several names.
C7_Witness ==
    /\ last.op = "delete_task"
    /\ last.ret = TRUE
    /\ last.a \notin last.pre
    /\ tasks # {}

\* C8: create_task(name), when no stored name matches name ignoring case,
\* returns name verbatim and the store afterwards is the previous set plus
\* name as submitted; this holds for the empty string too.
C8_Create ==
    (last.op = "create_task" /\ SameIgnoringCase(last.pre, last.a) = {})
        => /\ Returned
           /\ last.ret = Some(last.a)
           /\ tasks = last.pre \cup {last.a}

\* C8: the empty string was created beside a name stored with a capital.
C8_Witness ==
    /\ last.op = "create_task"
    /\ Returned
    /\ last.a = <<>>
    /\ <<"A">> \in last.pre
    /\ <<>> \in tasks

-----------------------------------------------------------------------------
(* Properties of process_message *)

\* The agent invocation of call p returned a result whose last message
\* carries a reply.
AgentReplied(p) ==
    /\ p.pc = "done"
    /\ p.raised = ""
    /\ ~p.result.isNone
    /\ p.result.hasMessages
    /\ Len(p.result.messages) > 0
    /\ p.result.messages[Len(p.result.messages)].hasContent

\* The positions of conversation k that hold exactly message m.
Positions(k, m) ==
    IF k \in DOMAIN conversations
    THEN { i \in 1..Len(conversations[k]) : conversations[k][i] = m }
    ELSE {}

\* C9: for a process_message call in which the agent returns a reply, the
\* user message is in the conversation (role 'user') while the agent is
\* invoked; the reply is appended to the same conversation (role
\* 'assistant') only after the invocation has returned, so while a call is
\* inside the invocation every assistant message stored after its user
\* message belongs to another call that has returned; and the string
\* returned equals the content of the appended assistant message, which
\* is also the reply the agent gave.
C9_SaveInvokeSaveReturn ==
    \A c \in Calls :
        LET p == pm[c]
            user == [id |-> p.uid, content |-> p.message, role |-> "user"]
            reply == [id |-> p.aid, content |-> p.ret, role |-> "assistant"]
        IN  /\ p.pc = "invoked"
               => /\ Positions(p.cid, user) # {}
                  /\ Len(p.context) > 0
                  /\ \A i \in 1..Len(conversations[p.cid]) :
                        LET m == conversations[p.cid][i] IN
                        (m.role = "assistant" /\ m.id > p.uid)
                            => \E d \in Calls \ {c} :
                                  pm[d].pc = "done" /\ pm[d].aid = m.id
            /\ AgentReplied(p)
               => /\ p.ret = p.result.messages[Len(p.result.messages)].content
                  /\ \E i \in Positions(p.cid, user), j \in Positions(p.cid, reply) : i < j

\* C9: a call returned the agent's reply while the other call, on the same
\* conversation, is still inside its agent invocation.
C9_Witness ==
    \E c \in Calls, d \in Calls :
        /\ AgentReplied(pm[c])
        /\ pm[c].ret = "r1"
        /\ pm[d].pc = "invoked"
        /\ pm[d].cid = pm[c].cid

\* C10: for every turn and every history length, what run hands to the
\* agent before the current message is a run of consecutive stored
\* messages ending at the newest stored one, at most 10 of them, in stored
\* order; and the current message it adds last is itself the newest stored
\* message.  So nothing older than the 10 most recent stored messages is
\* passed.
C10_ContextFromLastTen ==
    [][\A c \in Calls :
          (pm[c].pc = "idle" /\ pm'[c].pc = "invoked")
              => LET h == conversations'[pm'[c].cid]
                     ctx == pm'[c].context
                     n == Len(ctx) - 1
                 IN  /\ n >= 0
                     /\ n <= 10
                     /\ n <= Len(h)
                     /\ \A i \in 1..n :
                           LET m == h[Len(h) - n + i] IN
                           /\ ctx[i].content = m.content
                           /\ ctx[i].type = (IF m.role = "user" THEN "human" ELSE "ai")
                     /\ ctx[n + 1] = [type |-> "human", content |-> pm'[c].message]
                     /\ h[Len(h)].content = pm'[c].message
                     /\ h[Len(h)].role = "user"]_vars

\* C10: the agent is invoked on a conversation that holds more than 10
\* messages, with 10 of them and the current message.
C10_Witness ==
    \E c \in Calls :
        /\ pm[c].pc = "invoked"
        /\ Len(conversations[pm[c].cid]) > 10
        /\ Len(pm[c].context) = 11

\* C11: if the agent invocation (run) raises, process_message does not
\* raise: it returns "Error processing request: " followed by the error
\* text, and that same text is in the conversation as an 'assistant'
\* message after the user message the call saved.
C11_ErrorSavedAndReturned ==
    \A c \in Calls :
        LET p == pm[c]
            user == [id |-> p.uid, content |-> p.message, role |-> "user"]
            reply == [id |-> p.aid, content |-> p.ret, role |-> "assistant"]
        IN  (p.pc = "done" /\ p.raised # "")
               => /\ p.ret = "Error processing request: " \o p.raised
                  /\ \E i \in Positions(p.cid, user), j \in Positions(p.cid, reply) : i < j

\* C11: a call whose agent invocation raised has returned, on a
\* conversation that already held earlier turns.
C11_Witness ==
    \E c \in Calls :
        /\ pm[c].pc = "done"
        /\ pm[c].raised = "boom"
        /\ Len(conversations[pm[c].cid]) > 2

\* C17: process_message(message) called without a conversation id invokes
\* run exactly once, and the arguments of that invocation are the message
\* alone.
C17_RunCalledWithMessageAlone ==
    \A c \in Calls :
        (pm[c].pc # "idle" /\ pm[c].arg = None)
            => /\ pm[c].runCalls = 1
               /\ pm[c].runArgs = <<pm[c].message>>

\* C18: if run returns a result that has no 'messages' entry, an empty one,
\* or one whose last message has no content attribute, process_message
\* returns exactly "No response generated" and does not raise.
C18_NoResponseGenerated ==
    \A c \in Calls :
        LET p == pm[c] IN
        (/\ p.pc = "done"
         /\ p.raised = ""
         /\ \/ p.result.isNone
            \/ ~p.result.hasMessages
            \/ Len(p.result.messages) = 0
            \/ ~p.result.messages[Len(p.result.messages)].hasContent)
            => p.ret = "No response generated"

\* C18: a call returned after run gave a result whose last message has no
\* content attribute.
C18_Witness ==
    \E c \in Calls :
        /\ pm[c].pc = "done"
        /\ pm[c].raised = ""
        /\ pm[c].result.hasMessages
        /\ Len(pm[c].result.messages) = 1
        /\ ~pm[c].result.messages[1].hasContent
        /\ pm[c].ret = "No response generated"

\* C12: when the agent invocation fails while a chat request is handled,
\* the reply text returned to the user is the fixed apologetic message,
\* whatever the error was.
C12_FixedApology ==
    \A c \in Calls :
        (chat[c].pc = "responded" /\ pm[c].raised # "")
            => chat[c].response = Apology

\* C13: a list handed to a caller is a copy: the caller writing to it does
\* not change what the manager stores, and a later add_message does not
\* change the list the caller holds.
C13_NoAliasing ==
    [][ /\ (hlast'.op = "caller_clears") => (conversations' = conversations)
        /\ (held.ref # "none" /\ hlast'.op = "add_message")
              => (HeldList' = HeldList) ]_vars

\* C14: get_conversation_messages returns the messages of the key in the
\* order of the add_message calls made for it (since it was last deleted
\* or cleared), each with the content and the role that call was given.
C14_MessagesInCallOrder ==
    (hlast.op = "get_conversation_messages")
        => LET log == IF hlast.key \in DOMAIN added THEN added[hlast.key] ELSE <<>>
           IN  /\ Len(hlast.ret) = Len(log)
               /\ \A i \in 1..Len(log) :
                     /\ hlast.ret[i].content = log[i].content
                     /\ hlast.ret[i].role = log[i].role

\* C14: get_conversation_messages returned two messages that differ in
\* content and in role, after three add_message calls.
C14_Witness ==
    /\ hlast.op = "get_conversation_messages"
    /\ Len(hlast.ret) = 2
    /\ hlast.ret[1].content # hlast.ret[2].content
    /\ hlast.ret[1].role # hlast.ret[2].role
    /\ nextId = 4

\* C15: conversation_exists(k) is true exactly when add_message was called
\* with k since the last delete_conversation(k) or
\* clear_all_conversations; get_conversation, get_conversation_messages,
\* conversation_exists and get_all_conversations leave the conversations as
\* they were; get_conversation_messages on a key that is not stored
\* returns the empty list.
C15_ExistsIffAddedSinceDelete ==
    /\ (hlast.op = "conversation_exists")
          => (hlast.ret <=> hlast.key \in DOMAIN added)
    /\ (hlast.op \in {"get_conversation", "get_conversation_messages",
                      "conversation_exists", "get_all_conversations"})
          => (conversations = hlast.pre)
    /\ (hlast.op = "get_conversation_messages" /\ hlast.key \notin DOMAIN hlast.pre)
          => (hlast.ret = <<>>)

\* C15: conversation_exists answered true for a key whose only message is
\* the third one added, no other conversation being stored: the first two
\* were deleted or cleared.
C15_Witness ==
    /\ hlast.op = "conversation_exists"
    /\ hlast.ret
    /\ DOMAIN conversations = {hlast.key}
    /\ Len(conversations[hlast.key]) = 1
    /\ conversations[hlast.key][1].id = 3

\* C19: get_all_tasks returns the tasks in the order they were added, and
\* get_all_tasks_tool lists them in that order.
C19_InsertionOrder ==
    /\ (last.op = "get_all_tasks") => (last.ret = order)
    /\ (last.op = "get_all_tasks_tool")
          => (last.reply = IF Len(order) = 0 THEN <<"No tasks found">>
                           ELSE <<"Tasks: ">> \o join(order))

\* C20: get_all_tasks returns a list that holds every stored name exactly
\* once and nothing else, so as many entries as there are stored tasks and
\* the empty list for the empty store; it raises nothing and leaves the
\* store as it was.
C20_ListsEveryNameOnce ==
    (last.op = "get_all_tasks")
        => /\ Len(last.ret) = Cardinality(tasks)
           /\ \A t \in tasks : Cardinality({ i \in 1..Len(last.ret) : last.ret[i] = t }) = 1
           /\ \A i \in 1..Len(last.ret) : last.ret[i] \in tasks
           /\ (tasks = {}) => (last.ret = <<>>)
           /\ last.err = NoError
           /\ tasks = last.pre

\* C20: get_all_tasks listed a store of three names, one of them in upper
\* case.
C20_Witness ==
    /\ last.op = "get_all_tasks"
    /\ Cardinality(tasks) = 3
    /\ <<"A">> \in tasks
    /\ Len(last.ret) = 3

\* C16: with the storage calls of concurrent requests interleaved only
\* where the code can suspend, at most one request is inside create_task,
\* update_task or delete_task at a time, and no get_task, get_all_tasks or
\* task_exists reads the store while a mutation is in progress; in
\* particular none reads it between update_task's remove and its add.
C16_MutationsAtomic ==
    /\ Cardinality({ r \in Reqs : co[r].pc # "idle" }) <= 1
    /\ seen.during = {}
    /\ ~\E d \in seen.during : d.op = "update_task" /\ d.pc = "add"

\* C16: request 2 listed the store right after an update_task of request 1
\* had ended, the store holding two names.
C16_Witness ==
    /\ seen.by = 2
    /\ seen.op = "get_all_tasks"
    /\ seen.tasks = tasks
    /\ Cardinality(tasks) = 2
    /\ co[1] = CoIdle("update_task")
    /\ co[2] = CoIdle("get_all_tasks")

\* C21: delete_conversation(k) on a key without a conversation returns
\* False and leaves every stored conversation as it was; on a stored key
\* it returns True and removes that conversation only, the other
\* conversations and their message lists staying as they were.
C21_DeleteFrame ==
    (hlast.op = "delete_conversation")
        => /\ hlast.ret <=> (hlast.key \in DOMAIN hlast.pre)
           /\ DOMAIN conversations = DOMAIN hlast.pre \ {hlast.key}
           /\ \A k \in DOMAIN conversations : conversations[k] = hlast.pre[k]

\* C21: delete_conversation removed one of two stored conversations.
C21_Witness ==
    /\ hlast.op = "delete_conversation"
    /\ hlast.ret
    /\ Cardinality(DOMAIN hlast.pre) = 2
    /\ \E k \in DOMAIN conversations : Len(conversations[k]) = 2

\* C22: clear_all_conversations, called with N conversations stored,
\* returns N; afterwards get_all_conversations is empty and
\* conversation_exists is false for every key.
C22_ClearAll ==
    (hlast.op = "clear_all_conversations")
        => /\ hlast.ret = Cardinality(DOMAIN hlast.pre)
           /\ get_all_conversations(conversations) = {}
           /\ \A k \in Keys : ~conversation_exists(conversations, k)

\* C22: clear_all_conversations cleared two conversations.
C22_Witness ==
    /\ hlast.op = "clear_all_conversations"
    /\ hlast.ret = 2
    /\ DOMAIN hlast.pre = Keys

\* C23: the message list handed to the agent for a turn holds the current
\* user message once, as its last element, and everything before it comes
\* from earlier turns of the same conversation: it is a run of the
\* messages stored before this turn, ending at the newest of them.
C23_CurrentMessageOnce ==
    \A c \in Calls :
        LET p == pm[c]
            n == Len(p.context)
            Before(m) == m.id < p.uid
            earlier == SelectSeq(conversations[p.cid], Before)
        IN  (p.pc # "idle")
               => /\ n > 0
                  /\ p.context[n] = HumanMessage(p.message)
                  /\ \E k \in 0..Len(earlier) :
                        SubSeq(p.context, 1, n - 1)
                            = to_messages(SubSeq(earlier, Len(earlier) - k + 1,
                                                 Len(earlier)))

\* C24: when process_message calls on one conversation overlap, each
\* assistant reply is still stored immediately after the user message it
\* answers.
C24_ReplyFollowsItsMessage ==
    \A c \in Calls :
        LET p == pm[c]
            stored == conversations[p.cid]
        IN  (p.pc = "done" /\ p.aid # 0)
               => \E i \in 1..(Len(stored) - 1) :
                     stored[i].id = p.uid /\ stored[i + 1].id = p.aid

\* C25: when process_message calls do not overlap and nothing else writes
\* to the history, the roles of a conversation's messages alternate user,
\* assistant, user, assistant, ... starting with user.
C25_RolesAlternate ==
    \A k \in DOMAIN conversations :
        \A i \in 1..Len(conversations[k]) :
            conversations[k][i].role = IF i % 2 = 1 THEN "user" ELSE "assistant"

\* C26: update_task_tool's reply agrees with what happened to the store:
\* it replies "Task '<old>' not found" only when the store had no
\* case-insensitive match for old and was left as it was, and whenever the
\* call changed the store it replies "Task '<old>' updated to '<new>'".
C26_ReplyAgreesWithStore ==
    (last.op = "update_task_tool")
        => /\ (last.reply = <<"Task '", last.a, "' not found">>)
                 => (matches(last.pre, last.a) = {} /\ tasks = last.pre)
           /\ (tasks # last.pre)
                 => (last.reply = <<"Task '", last.a, "' updated to '", last.b, "'">>)

\* C27: update_task(old, new) with new equal, ignoring case, to the stored
\* entry that old matches succeeds without a duplicate error: afterwards
\* the store holds new as given in place of that entry and has the same
\* size, and renaming a stored name to exactly itself leaves the store as
\* it was.
C27_RecasingSucceeds ==
    (last.op = "update_task")
        => \A t \in matches(last.pre, last.a) :
              (lower(last.b) = lower(t))
                  => /\ last.err = NoError
                     /\ last.ret = Some(last.b)
                     /\ tasks = (last.pre \ {t}) \cup {last.b}
                     /\ Cardinality(tasks) = Cardinality(last.pre)
                     /\ (last.b = t) => (tasks = last.pre)

\* C28: the history is append-only: a conversation that a step neither
\* deletes nor clears holds after the step what it held before as a
\* prefix, however many messages it holds; so the messages at an earlier
\* time are a prefix of those at any later time.
C28_AppendOnly ==
    [][ \A k \in DOMAIN conversations \cap DOMAIN conversations' :
            /\ Len(conversations[k]) <= Len(conversations'[k])
            /\ SubSeq(conversations'[k], 1, Len(conversations[k])) = conversations[k]
      ]_vars

\* C28: a conversation holds twelve messages, two more than the context
\* window, both saved by a call that has returned.
C28_Witness ==
    \E c \in Calls :
        /\ pm[c].pc = "done"
        /\ pm[c].aid # 0
        /\ Len(conversations[pm[c].cid]) = ContextWindow + 2
        /\ conversations[pm[c].cid][ContextWindow + 2].id = pm[c].aid

\* C29: with a clock that never goes backwards, every stored conversation
\* has created_at <= the timestamp of each of its messages <= updated_at
\* in every reachable state, and its created_at never changes.
C29_TimestampsOrdered ==
    [][ \A k \in DOMAIN stamps' :
            /\ \A i \in 1..Len(stamps'[k].timestamps) :
                  /\ stamps'[k].created_at <= stamps'[k].timestamps[i]
                  /\ stamps'[k].timestamps[i] <= stamps'[k].updated_at
            /\ (k \in DOMAIN stamps) => (stamps'[k].created_at = stamps[k].created_at)
      ]_vars

\* C30: every process_message call eventually returns to its caller,
\* provided its agent invocation eventually returns or raises; and a call
\* waits for nothing else: while it is suspended in the agent invocation,
\* the agent's return and the agent's exception can each be taken up at
\* once, whatever the other calls are doing.
C30_EveryCallReturns ==
    /\ [](\A c \in Calls :
            (pm[c].pc = "invoked")
                => (ENABLED AgentReturns(c) /\ ENABLED AgentRaises(c)))
    /\ \A c \in Calls : (pm[c].pc = "invoked") ~> (pm[c].pc = "done")

\* C30: the second call has returned "No response generated" while the
\* first, on the same conversation, is still suspended in its agent
\* invocation.
C30_Witness ==
    /\ pm[1].pc = "invoked"
    /\ pm[2].pc = "done"
    /\ pm[2].ret = "No response generated"
    /\ pm[2].cid = pm[1].cid

=============================================================================
